---- MODULE Spec2Model ----
\* A model of the MPL3115A2 driver in src/src/mpl311.cpp: every bus transaction
\* and every delay of the driver is one step, the sensor is a second process
\* that finishes resets and measurements on its own, and every bus transaction
\* may fail.
EXTENDS Integers, Sequences, FiniteSets, TLC

\* ---------------------------------------------------------------- bounds
\* Polling iterations that are recorded in the transaction log of one loop;
\* the loops themselves are unbounded, later iterations leave the log as is.
MaxPolls == 2

\* ------------------------------------------------- registers and bit masks
\* mpl.hpp:30-33
BAROMETER_M == 0
ALTIMETER_M == 1

\* Bit masks of libhal-mpl311/mpl311.hpp (MPL3115A2 register map).
CTRL_REG1_RST == 4
CTRL_REG1_OST == 2
CTRL_REG1_OS128 == 56
CTRL_REG1_ALT == 128
STATUS_PTDR == 8
STATUS_PDR == 4
STATUS_TDR == 2
PT_DATA_CFG_TDEFE == 1
PT_DATA_CFG_PDEFE == 2
PT_DATA_CFG_DREM == 4
\* the identity byte begin() compares against
WHOAMI_ID == 196

\* ------------------------------------------------------------ C++ operators
\* a & b, a ^ b, a | b on n-bit unsigned operands
RECURSIVE BitAnd(_, _, _)
BitAnd(a, b, n) ==
    IF n = 0 THEN 0
    ELSE (a % 2) * (b % 2) + 2 * BitAnd(a \div 2, b \div 2, n - 1)

RECURSIVE BitXor(_, _, _)
BitXor(a, b, n) ==
    IF n = 0 THEN 0
    ELSE (((a % 2) + (b % 2)) % 2) + 2 * BitXor(a \div 2, b \div 2, n - 1)

RECURSIVE BitOr(_, _, _)
BitOr(a, b, n) ==
    IF n = 0 THEN 0
    ELSE (IF (a % 2) + (b % 2) > 0 THEN 1 ELSE 0) + 2 * BitOr(a \div 2, b \div 2, n - 1)

\* bits carried for the unsigned long expressions of lines 56 and 77: the
\* operators work bit by bit and the result is stored in a byte, so the low 16
\* of the 32 bits decide it
ULBits == 16
\* unary minus on the mode in the unsigned arithmetic of line 56
NegUL(m) == ((2 ^ ULBits) - m) % (2 ^ ULBits)

\* ------------------------------------------------------------------- state
VARIABLES
    sensor_mode,   \* mpl311::sensor_mode
    op,            \* the public operation called last, "none" before the first
    pc,            \* position inside the operation
    arg,           \* the argument of the operation
    ctrl_buffer,   \* ctrl_buffer[0] of the function that is polling or reading
    result,        \* what the last operation returned, "none" while it runs
    reading,       \* the measurement returned by the last read
    dev_ctrl,      \* sensor: control register 1
    dev_status,    \* sensor: status register
    log,           \* the bus transactions and delays of the current operation
    polls,         \* iterations of the current polling loop, up to MaxPolls
    last_ctrl1,    \* last byte the driver wrote to control register 1, -1: none
    entry_mode,    \* sensor_mode when the current operation was called
    created        \* a call of begin has returned true

vars == <<sensor_mode, op, pc, arg, ctrl_buffer, result, reading, dev_ctrl,
          dev_status, log, polls, last_ctrl1, entry_mode, created>>

driver_locals == <<arg, ctrl_buffer>>
device == <<dev_ctrl, dev_status>>

\* --------------------------------------------------------------- Init
\* power-on or left-over register contents the sensor can hold at start-up
InitCtrl == {0, 65, 255}

Init ==
    /\ sensor_mode \in {BAROMETER_M, ALTIMETER_M}
    /\ op = "none"
    /\ pc = "idle"
    /\ arg = 0
    /\ ctrl_buffer = 0
    /\ result = "none"
    /\ reading = <<>>
    /\ dev_ctrl \in InitCtrl
    /\ dev_status \in {0, STATUS_PTDR + STATUS_PDR + STATUS_TDR}
    /\ log = <<>>
    /\ polls = 0
    /\ last_ctrl1 = -1
    /\ entry_mode = sensor_mode
    /\ created = FALSE

\* ------------------------------------------------------------ bookkeeping
\* one entry of the transaction log: fn is the driver function that issued it,
\* tx is "write", "write_then_read" or "delay", data the bytes written after
\* the register address or the bytes read back
Tx(fn, tx, reg, data, ok) ==
    [fn |-> fn, tx |-> tx, reg |-> reg, data |-> data, ok |-> ok]

Delay(fn) == Tx(fn, "delay", "-", <<>>, TRUE)

\* the public operation returns r to its caller
Return(r) ==
    /\ pc' = "idle"
    /\ result' = r

\* a public operation is called
Call(o, a, first) ==
    /\ pc = "idle"
    /\ op' = o
    /\ arg' = a
    /\ pc' = first
    /\ result' = "none"
    /\ reading' = <<>>
    /\ log' = <<>>
    /\ polls' = 0
    /\ entry_mode' = sensor_mode
    /\ UNCHANGED <<sensor_mode, ctrl_buffer, device, last_ctrl1, created>>

\* ------------------------------------------------------------- the sensor
\* what control register 1 holds after the byte v is written to it: a write
\* with the reset bit starts a software reset, which clears the register and
\* keeps the reset bit reading set until the reset is complete
DevWriteCtrl(v) ==
    IF BitAnd(v, CTRL_REG1_RST, 8) # 0 THEN CTRL_REG1_RST ELSE v

\* the software reset completes: the register reads as its reset value
DevResetDone ==
    /\ BitAnd(dev_ctrl, CTRL_REG1_RST, 8) # 0
    /\ dev_ctrl' = 0
    /\ dev_status' = 0
    /\ UNCHANGED <<sensor_mode, op, pc, driver_locals, result, reading, log,
                   polls, last_ctrl1, entry_mode, created>>

\* a one-shot measurement completes: the one-shot bit clears itself and the
\* data-ready flags are raised
DevMeasureDone ==
    /\ BitAnd(dev_ctrl, CTRL_REG1_RST, 8) = 0
    /\ BitAnd(dev_ctrl, CTRL_REG1_OST, 8) # 0
    /\ dev_ctrl' = dev_ctrl - CTRL_REG1_OST
    /\ dev_status' = STATUS_PTDR + STATUS_PDR + STATUS_TDR
    /\ UNCHANGED <<sensor_mode, op, pc, driver_locals, result, reading, log,
                   polls, last_ctrl1, entry_mode, created>>

\* ------------------------------------------------------------ mpl311::begin
\* identity bytes a device on the bus answers with: the expected one, the
\* bytes that differ from it in one bit, and the two extremes
Ids == {WHOAMI_ID, 0, 255} \cup {BitXor(WHOAMI_ID, 2 ^ i, 8) : i \in 0 .. 7}

Call_begin == Call("begin", 0, "begin_whoami")

\* variant: any device is accepted
whoami_matches_any(b) == TRUE

\* line 12: the comparison with the expected identity
whoami_matches(b) == b = WHOAMI_ID

\* lines 8-14: read the identity register, return false on a mismatch
begin_whoami ==
    /\ pc = "begin_whoami"
    /\ \E ok \in BOOLEAN, id \in Ids :
         /\ ok \/ id = WHOAMI_ID
         /\ log' = Append(log, Tx("begin", "write_then_read", "WHOAMI_R",
                                   IF ok THEN <<id>> ELSE <<>>, ok))
         /\ IF ~ok THEN Return("BusError")
            ELSE IF ~whoami_matches(id) THEN Return("UnexpectedDevice")
            ELSE pc' = "begin_reset" /\ UNCHANGED result
    /\ UNCHANGED <<sensor_mode, op, driver_locals, reading, device, polls,
                   last_ctrl1, entry_mode, created>>

\* lines 17-18: write the reset bit to control register 1
begin_reset ==
    /\ pc = "begin_reset"
    /\ \E ok \in BOOLEAN :
         /\ log' = Append(log, Tx("begin", "write", "CTRL_REG1",
                                   <<CTRL_REG1_RST>>, ok))
         /\ IF ok
            THEN /\ dev_ctrl' = DevWriteCtrl(CTRL_REG1_RST)
                 /\ last_ctrl1' = CTRL_REG1_RST
                 /\ pc' = "begin_poll"
                 /\ UNCHANGED result
            ELSE /\ Return("BusError")
                 /\ UNCHANGED <<dev_ctrl, last_ctrl1>>
    /\ UNCHANGED <<sensor_mode, op, driver_locals, reading, dev_status, polls,
                   entry_mode, created>>

\* variant: the first poll ends the wait
reset_done_always(b) == TRUE

\* line 24: the reset bit of the byte read back is clear
reset_done(b) == BitAnd(b, CTRL_REG1_RST, 8) = 0

\* lines 22-25: one poll of control register 1 for the reset bit
begin_poll ==
    /\ pc = "begin_poll"
    /\ \E ok \in BOOLEAN :
         IF ~ok
         THEN /\ log' = Append(log, Tx("begin", "write_then_read", "CTRL_REG1",
                                        <<>>, FALSE))
              /\ Return("BusError")
              /\ UNCHANGED <<ctrl_buffer, polls>>
         ELSE /\ ctrl_buffer' = dev_ctrl
              /\ UNCHANGED result
              /\ IF reset_done(dev_ctrl)
                 THEN /\ pc' = "begin_os"
                      /\ polls' = 0
                      /\ log' = Append(log, Tx("begin", "write_then_read",
                                                "CTRL_REG1", <<dev_ctrl>>, TRUE))
                 ELSE /\ pc' = "begin_delay"
                      /\ UNCHANGED polls
                      /\ log' = IF polls < MaxPolls
                                THEN Append(log, Tx("begin", "write_then_read",
                                                    "CTRL_REG1", <<dev_ctrl>>, TRUE))
                                ELSE log
    /\ UNCHANGED <<sensor_mode, op, arg, reading, device, last_ctrl1, entry_mode, created>>

\* line 27: the fixed delay between two polls
begin_delay ==
    /\ pc = "begin_delay"
    /\ pc' = "begin_poll"
    /\ log' = IF polls < MaxPolls THEN Append(log, Delay("begin")) ELSE log
    /\ polls' = IF polls < MaxPolls THEN polls + 1 ELSE polls
    /\ UNCHANGED <<sensor_mode, op, driver_locals, result, reading, device,
                   last_ctrl1, entry_mode, created>>

\* variant: the altimeter bit is left out
os_byte_noalt == CTRL_REG1_OS128

\* the byte of line 33
os_byte == BitOr(CTRL_REG1_OS128, CTRL_REG1_ALT, 8)

\* lines 31-34: set the mode field, then write oversampling and altimeter mode
begin_os ==
    /\ pc = "begin_os"
    /\ sensor_mode' = ALTIMETER_M
    /\ \E ok \in BOOLEAN :
         /\ log' = Append(log, Tx("begin", "write", "CTRL_REG1", <<os_byte>>, ok))
         /\ IF ok
            THEN /\ dev_ctrl' = DevWriteCtrl(os_byte)
                 /\ last_ctrl1' = os_byte
                 /\ pc' = "begin_dr"
                 /\ UNCHANGED result
            ELSE /\ Return("BusError")
                 /\ UNCHANGED <<dev_ctrl, last_ctrl1>>
    /\ UNCHANGED <<op, driver_locals, reading, dev_status, polls, entry_mode, created>>

\* the byte of lines 39-41
dr_byte == BitOr(PT_DATA_CFG_TDEFE, BitOr(PT_DATA_CFG_PDEFE, PT_DATA_CFG_DREM, 8), 8)

\* lines 37-45: enable the data-ready events, return true
begin_dr ==
    /\ pc = "begin_dr"
    /\ \E ok \in BOOLEAN :
         /\ log' = Append(log, Tx("begin", "write", "PT_DATA_CFG_R", <<dr_byte>>, ok))
         /\ Return(IF ok THEN "success" ELSE "BusError")
         /\ created' = (created \/ ok)
    /\ UNCHANGED <<sensor_mode, op, driver_locals, reading, device, polls,
                   last_ctrl1, entry_mode>>

begin ==
    \/ begin_whoami
    \/ begin_reset
    \/ begin_poll
    \/ begin_delay
    \/ begin_os
    \/ begin_dr

\* --------------------------------------------------------- mpl311::set_mode
\* the mode set_mode was called with: its argument, or the mode p_read
\* (line 114) and a_read (line 139) pass
sm_target ==
    IF op = "set_mode" THEN arg
    ELSE IF op = "p_read" THEN BAROMETER_M ELSE ALTIMETER_M

\* variant: only the mode bit is written, the other bits are dropped
mode_set_reg_only(mode, b) == mode * (2 ^ 7)

\* line 56: ctrl_buffer[0] ^= (-mode ^ ctrl_buffer[0]) & (1UL << 7)
mode_set_reg(mode, b) ==
    BitXor(b, BitAnd(BitXor(NegUL(mode), b, ULBits), 2 ^ 7, ULBits), ULBits) % 256

\* set_mode returns r: to the caller of the public operation, or into p_read
\* and a_read, which call it as a statement and go on to initiate_one_shot
sm_return(r) ==
    IF op = "set_mode"
    THEN Return(r)
    ELSE pc' = "os_poll" /\ UNCHANGED result

Call_set_mode == \E m \in {BAROMETER_M, ALTIMETER_M} : Call("set_mode", m, "sm_read")

\* lines 51-53: read control register 1
sm_read ==
    /\ pc = "sm_read"
    /\ \E ok \in BOOLEAN :
         IF ok
         THEN /\ log' = Append(log, Tx("set_mode", "write_then_read", "CTRL_REG1",
                                        <<dev_ctrl>>, TRUE))
              /\ ctrl_buffer' = dev_ctrl
              /\ pc' = "sm_write"
              /\ UNCHANGED result
         ELSE /\ log' = Append(log, Tx("set_mode", "write_then_read", "CTRL_REG1",
                                        <<>>, FALSE))
              /\ sm_return("BusError")
              /\ UNCHANGED ctrl_buffer
    /\ UNCHANGED <<sensor_mode, op, arg, reading, device, polls, last_ctrl1,
                   entry_mode, created>>

\* variant: the mode field is assigned whatever the write returned
mode_after_write_unchecked(ok) == sm_target

\* lines 58-60: the HAL_CHECK of the write returns before the assignment
mode_after_write(ok) == IF ok THEN sm_target ELSE sensor_mode

\* lines 56-60: write the byte back, then set the mode field
sm_write ==
    /\ pc = "sm_write"
    /\ LET v == mode_set_reg(sm_target, ctrl_buffer) IN
       /\ ctrl_buffer' = v
       /\ \E ok \in BOOLEAN :
            /\ log' = Append(log, Tx("set_mode", "write", "CTRL_REG1", <<v>>, ok))
            /\ sensor_mode' = mode_after_write(ok)
            /\ IF ok
               THEN /\ dev_ctrl' = DevWriteCtrl(v)
                    /\ last_ctrl1' = v
                    /\ sm_return("success")
               ELSE /\ sm_return("BusError")
                    /\ UNCHANGED <<dev_ctrl, last_ctrl1>>
    /\ UNCHANGED <<op, arg, reading, dev_status, polls, entry_mode, created>>

set_mode ==
    \/ sm_read
    \/ sm_write

\* ------------------------------------------------ mpl311::initiate_one_shot
\* lines 68-71: one poll of control register 1 for the one-shot bit; when the
\* transaction fails the function returns, and its caller (lines 94, 115, 140)
\* goes on to the data-ready loop
os_poll ==
    /\ pc = "os_poll"
    /\ \E ok \in BOOLEAN :
         IF ~ok
         THEN /\ log' = Append(log, Tx("initiate_one_shot", "write_then_read",
                                        "CTRL_REG1", <<>>, FALSE))
              /\ pc' = "dr_check"
              /\ polls' = 0
              /\ UNCHANGED ctrl_buffer
         ELSE /\ ctrl_buffer' = dev_ctrl
              /\ IF BitAnd(dev_ctrl, CTRL_REG1_OST, 8) = 0
                 THEN /\ pc' = "os_write"
                      /\ polls' = 0
                      /\ log' = Append(log, Tx("initiate_one_shot", "write_then_read",
                                                "CTRL_REG1", <<dev_ctrl>>, TRUE))
                 ELSE /\ pc' = "os_delay"
                      /\ UNCHANGED polls
                      /\ log' = IF polls < MaxPolls
                                THEN Append(log, Tx("initiate_one_shot", "write_then_read",
                                                    "CTRL_REG1", <<dev_ctrl>>, TRUE))
                                ELSE log
    /\ UNCHANGED <<sensor_mode, op, arg, result, reading, device, last_ctrl1,
                   entry_mode, created>>

\* line 73
os_delay ==
    /\ pc = "os_delay"
    /\ pc' = "os_poll"
    /\ log' = IF polls < MaxPolls THEN Append(log, Delay("initiate_one_shot")) ELSE log
    /\ polls' = IF polls < MaxPolls THEN polls + 1 ELSE polls
    /\ UNCHANGED <<sensor_mode, op, driver_locals, result, reading, device,
                   last_ctrl1, entry_mode, created>>

\* variant of line 77: the byte is replaced by the one-shot bit alone
ost_set_reg_clobber(b) == 2 ^ 1

\* line 77: ctrl_buffer[0] |= 1UL << 1
ost_set_reg(b) == BitOr(b, 2 ^ 1, ULBits) % 256

\* lines 77-79: write the byte with the one-shot bit set
os_write ==
    /\ pc = "os_write"
    /\ pc' = "dr_check"
    /\ LET v == ost_set_reg(ctrl_buffer) IN
       /\ ctrl_buffer' = v
       /\ \E ok \in BOOLEAN :
            /\ log' = Append(log, Tx("initiate_one_shot", "write", "CTRL_REG1",
                                      <<v>>, ok))
            /\ IF ok
               THEN /\ dev_ctrl' = DevWriteCtrl(v)
                    /\ last_ctrl1' = v
               ELSE UNCHANGED <<dev_ctrl, last_ctrl1>>
    /\ UNCHANGED <<sensor_mode, op, arg, result, reading, dev_status, polls,
                   entry_mode, created>>

initiate_one_shot ==
    \/ os_poll
    \/ os_delay
    \/ os_write

\* -------------------------------------------- mpl311::check_data_ready_flag
\* lines 85-89 inside the loops of lines 95, 116, 141: the function returns a
\* bool, so a failed transaction reaches the loop as a value the source does
\* not determine
\* variant: the flag is never seen
data_ready_never(b) == FALSE

\* line 89: (status_buffer[0] & STATUS_PTDR) != 0
data_ready(b) == BitAnd(b, STATUS_PTDR, 8) # 0

dr_check ==
    /\ pc = "dr_check"
    /\ \E ok \in BOOLEAN, r \in BOOLEAN :
         LET ready == IF ok THEN data_ready(dev_status) ELSE r
             e == Tx("check_data_ready_flag", "write_then_read", "STATUS_R",
                     IF ok THEN <<dev_status>> ELSE <<>>, ok)
         IN  /\ ok => r
             /\ IF ready
                THEN /\ pc' = "out_read"
                     /\ polls' = 0
                     /\ log' = Append(log, e)
                ELSE /\ pc' = "dr_delay"
                     /\ UNCHANGED polls
                     /\ log' = IF polls < MaxPolls THEN Append(log, e) ELSE log
    /\ UNCHANGED <<sensor_mode, op, driver_locals, result, reading, device,
                   last_ctrl1, entry_mode, created>>

\* lines 96, 117, 142
dr_delay ==
    /\ pc = "dr_delay"
    /\ pc' = "dr_check"
    /\ log' = IF polls < MaxPolls THEN Append(log, Delay(op)) ELSE log
    /\ polls' = IF polls < MaxPolls THEN polls + 1 ELSE polls
    /\ UNCHANGED <<sensor_mode, op, driver_locals, result, reading, device,
                   last_ctrl1, entry_mode, created>>

check_data_ready_flag ==
    \/ dr_check
    \/ dr_delay

\* --------------------------------------------------------- measurement reads
\* contents of the three pressure/altitude output registers (MSB, CSB, LSB)
\* the sensor is read with
OutP == {<<0, 1, 0>>, <<1, 0, 0>>, <<1, 2, 3>>, <<127, 255, 255>>,
         <<128, 0, 0>>, <<255, 255, 255>>}

\* contents of the two temperature output registers (MSB, LSB), and the bytes
\* that may lie behind the two-byte buffer
OutT == {<<26, 0>>, <<26, 128>>, <<127, 255>>, <<255, 240>>}
Behind == {0, 255}

\* the sensor's flags after output registers were read: the read clears the
\* data-ready flags
DevReadOut == 0

\* conversion to int16_t, line 105
ToInt16(u) == IF u % 65536 >= 32768 THEN (u % 65536) - 65536 ELSE u % 65536

\* line 105: temp_buffer[0] and temp_buffer[4]; g is the byte found at index 4,
\* which lies outside the two-byte buffer
temp_reading(temp_buffer, g) ==
    ToInt16(BitOr(temp_buffer[1] * (2 ^ 8), g, 16))

\* variant: the bytes are packed in the reverse order
pressure_reading_reversed(pres_buffer) ==
    pres_buffer[3] * (2 ^ 16) + pres_buffer[2] * (2 ^ 8) + pres_buffer[1]

\* lines 127-129
pressure_reading(pres_buffer) ==
    BitOr(pres_buffer[1] * (2 ^ 16),
          BitOr(pres_buffer[2] * (2 ^ 8), pres_buffer[3], 24), 24)

\* lines 151-153, a uint32_t, held as its upper and lower 16 bits:
\* buffer[0] << 24 | buffer[1] << 16 is the upper half, buffer[2] << 8 the lower
alt_reading(alt_buffer) ==
    [hi |-> BitOr(alt_buffer[1] * (2 ^ 8), alt_buffer[2], 16),
     lo |-> alt_buffer[3] * (2 ^ 8)]

\* static_cast<float>(raw) / factor as the exact quotient num / den: every raw
\* value has at most 24 significant bits and every factor is a power of two
Quotient(raw, factor) == [num |-> raw, den |-> factor]

\* line 156: static_cast<float>(alt_reading) / 65536 for the unsigned raw
\* value hi * 2^16 + lo, reduced by the 2^8 that divides every raw value
altitude(raw) == Quotient(raw.hi * (2 ^ 8) + raw.lo \div (2 ^ 8), 256)

\* variant: t_read switches the mode like the other two reads
Call_t_read_switch == Call("t_read", 0, "sm_read")

\* line 94: t_read starts with initiate_one_shot
Call_t_read == Call("t_read", 0, "os_poll")

\* variant: the mode is switched on every read
mode_differs_always(required) == TRUE

\* lines 113 and 138: the tracked mode is not the one the measurement needs
mode_differs(required) == sensor_mode # required

\* lines 113-114: the mode check on entry
Call_p_read ==
    Call("p_read", 0, IF mode_differs(BAROMETER_M) THEN "sm_read" ELSE "os_poll")

\* lines 138-139
Call_a_read ==
    Call("a_read", 0, IF mode_differs(ALTIMETER_M) THEN "sm_read" ELSE "os_poll")

\* lines 98-108
t_out ==
    /\ pc = "out_read"
    /\ op = "t_read"
    /\ \E ok \in BOOLEAN, temp_buffer \in OutT, g \in Behind :
         IF ok
         THEN /\ log' = Append(log, Tx("t_read", "write_then_read", "OUT_T_MSB_R",
                                        temp_buffer, TRUE))
              /\ dev_status' = DevReadOut
              /\ reading' = Quotient(temp_reading(temp_buffer, g), 256)
              /\ Return("success")
         ELSE /\ temp_buffer = <<26, 0>> /\ g = 0
              /\ log' = Append(log, Tx("t_read", "write_then_read", "OUT_T_MSB_R",
                                        <<>>, FALSE))
              /\ Return("BusError")
              /\ UNCHANGED <<dev_status, reading>>
    /\ UNCHANGED <<sensor_mode, op, driver_locals, dev_ctrl, polls, last_ctrl1,
                   entry_mode, created>>

\* lines 119-133
p_out ==
    /\ pc = "out_read"
    /\ op = "p_read"
    /\ \E ok \in BOOLEAN, pres_buffer \in OutP :
         IF ok
         THEN /\ log' = Append(log, Tx("p_read", "write_then_read", "OUT_P_MSB_R",
                                        pres_buffer, TRUE))
              /\ dev_status' = DevReadOut
              /\ reading' = Quotient(pressure_reading(pres_buffer), 64)
              /\ Return("success")
         ELSE /\ pres_buffer = <<0, 1, 0>>
              /\ log' = Append(log, Tx("p_read", "write_then_read", "OUT_P_MSB_R",
                                        <<>>, FALSE))
              /\ Return("BusError")
              /\ UNCHANGED <<dev_status, reading>>
    /\ UNCHANGED <<sensor_mode, op, driver_locals, dev_ctrl, polls, last_ctrl1,
                   entry_mode, created>>

\* lines 144-157
a_out ==
    /\ pc = "out_read"
    /\ op = "a_read"
    /\ \E ok \in BOOLEAN, alt_buffer \in OutP :
         IF ok
         THEN /\ log' = Append(log, Tx("a_read", "write_then_read", "OUT_P_MSB_R",
                                        alt_buffer, TRUE))
              /\ dev_status' = DevReadOut
              /\ reading' = altitude(alt_reading(alt_buffer))
              /\ Return("success")
         ELSE /\ alt_buffer = <<0, 1, 0>>
              /\ log' = Append(log, Tx("a_read", "write_then_read", "OUT_P_MSB_R",
                                        <<>>, FALSE))
              /\ Return("BusError")
              /\ UNCHANGED <<dev_status, reading>>
    /\ UNCHANGED <<sensor_mode, op, driver_locals, dev_ctrl, polls, last_ctrl1,
                   entry_mode, created>>

\* ------------------------------------------------------ calibration setters
\* sea-level pressures in pascals passed to set_sea_pressure; the half of the
\* last one does not fit a uint16_t
SeaPressures == {0, 1, 3, 101326, 131071, 140000}

\* variant: the division by 2 is left out
bar_undivided(sea_level_pressure) == {sea_level_pressure % 65536}

\* line 168: uint16_t bar = sea_level_pressure / 2, the values bar may hold.
\* The conversion of a float that does not fit the uint16_t is undefined: a
\* build may wrap it, saturate it or yield zero
bar(sea_level_pressure) ==
    LET half == sea_level_pressure \div 2 IN
    IF half >= 0 /\ half < 65536
    THEN {half}
    ELSE {half % 65536, 65535, 0}

Call_set_sea_pressure ==
    \E p \in SeaPressures : Call("set_sea_pressure", p, "slp_write")

\* lines 171-177
set_sea_pressure ==
    /\ pc = "slp_write"
    /\ \E ok \in BOOLEAN, b \in bar(arg) :
         /\ log' = Append(log, Tx("set_sea_pressure", "write", "BAR_IN_MSB_R",
                                   <<b \div (2 ^ 8), BitAnd(b, 255, 16)>>, ok))
         /\ Return(IF ok THEN "success" ELSE "BusError")
    /\ UNCHANGED <<sensor_mode, op, driver_locals, reading, device, polls,
                   last_ctrl1, entry_mode, created>>

\* offsets in metres passed to set_altitude_offset
Offsets == {-128, -127, -5, -1, 0, 1, 5, 127}

Call_set_altitude_offset ==
    \E o \in Offsets : Call("set_altitude_offset", o, "off_write")

\* variant: the magnitude is written, the sign is lost
offset_byte_magnitude(offset) == IF offset < 0 THEN -offset ELSE offset

\* line 186: hal::byte(offset)
offset_byte(offset) == offset % 256

\* lines 186-187
set_altitude_offset ==
    /\ pc = "off_write"
    /\ \E ok \in BOOLEAN :
         /\ log' = Append(log, Tx("set_altitude_offset", "write", "OFF_H_R",
                                   <<offset_byte(arg)>>, ok))
         /\ Return(IF ok THEN "success" ELSE "BusError")
    /\ UNCHANGED <<sensor_mode, op, driver_locals, reading, device, polls,
                   last_ctrl1, entry_mode, created>>

\* ------------------------------------------------------------ specification
Driver ==
    \/ Call_begin
    \/ Call_set_mode
    \/ Call_t_read
    \/ Call_p_read
    \/ Call_a_read
    \/ Call_set_sea_pressure
    \/ Call_set_altitude_offset
    \/ begin
    \/ set_mode
    \/ initiate_one_shot
    \/ check_data_ready_flag
    \/ t_out
    \/ p_out
    \/ a_out
    \/ set_sea_pressure
    \/ set_altitude_offset

Sensor ==
    \/ DevResetDone
    \/ DevMeasureDone

Next == Driver \/ Sensor

Spec == Init /\ [][Next]_vars

\* the driver never waits: every enabled driver step is eventually taken; the
\* sensor is under no obligation to finish a reset or a measurement
FairSpec == Spec /\ WF_vars(Driver)

\* ------------------------------------------------------- reading the log
Bit(b, mask) == BitAnd(b, mask, 8) # 0

IsBus(e) == e.tx # "delay"
IsCtrlWrite(e) == e.tx = "write" /\ e.reg = "CTRL_REG1"
IsResetPoll(e) == e.fn = "begin" /\ e.tx = "write_then_read" /\ e.reg = "CTRL_REG1"
IsModeWrite(e) == e.fn = "set_mode" /\ e.tx = "write"
IsOneShotWrite(e) == e.fn = "initiate_one_shot" /\ e.tx = "write"
IsStatusRead(e) == e.reg = "STATUS_R"
IsOutRead(e) == e.reg \in {"OUT_P_MSB_R", "OUT_T_MSB_R"}

Reads == {"t_read", "p_read", "a_read"}
Idx == 1 .. Len(log)

\* ----------------------------------------------------------------- C1
\* C1: between operations, once the driver has written control register 1,
\* the mode field equals the altitude-mode bit of the last byte written there.
C1_ModeEqualsLastWrittenBit ==
    (pc = "idle" /\ last_ctrl1 # -1)
        => ((sensor_mode = ALTIMETER_M) <=> Bit(last_ctrl1, CTRL_REG1_ALT))

\* ----------------------------------------------------------------- C2
\* C2: when the identity read returns a byte other than 0xC4, begin has
\* returned with the mismatch and the identity read is its only transaction.
C2_MismatchStopsBegin ==
    (op = "begin" /\ log # <<>> /\ log[1].ok /\ log[1].data # <<196>>)
        => /\ pc = "idle"
           /\ result = "UnexpectedDevice"
           /\ Len(log) = 1

C2_Witness ==
    /\ op = "begin"
    /\ pc = "idle"
    /\ log # <<>>
    /\ log[1].ok
    /\ log[1].data = <<197>>

\* ----------------------------------------------------------------- C3
\* C3: in begin, the oversample/altimeter write and the successful return come
\* only after a poll that read the reset bit clear, every poll that read the
\* bit set is followed by one delay and then by the next poll, and a delay
\* occurs nowhere else. (Iterations after the first MaxPolls of a loop are not
\* in the log, so the last recorded delay may be followed by unrecorded ones.)
C3_ResetHandshake ==
    op = "begin" =>
        /\ \A i \in Idx :
             (IsCtrlWrite(log[i]) /\ log[i].data # <<CTRL_REG1_RST>>)
                 => /\ i > 1
                    /\ IsResetPoll(log[i - 1])
                    /\ log[i - 1].ok
                    /\ ~Bit(log[i - 1].data[1], CTRL_REG1_RST)
        /\ result = "success"
               => \E i \in Idx : /\ IsResetPoll(log[i])
                                 /\ log[i].ok
                                 /\ ~Bit(log[i].data[1], CTRL_REG1_RST)
        /\ \A i \in Idx :
             (IsResetPoll(log[i]) /\ log[i].ok /\ Bit(log[i].data[1], CTRL_REG1_RST))
                 => IF i = Len(log)
                    THEN pc = "begin_delay"
                    ELSE /\ log[i + 1].tx = "delay"
                         /\ i + 1 = Len(log)
                                => \/ pc = "begin_poll"
                                   \/ pc = "begin_delay" /\ polls = MaxPolls
                         /\ i + 1 < Len(log) => IsResetPoll(log[i + 2])
        /\ \A i \in Idx :
             log[i].tx = "delay"
                 => /\ i > 1
                    /\ IsResetPoll(log[i - 1])
                    /\ log[i - 1].ok
                    /\ Bit(log[i - 1].data[1], CTRL_REG1_RST)

\* begin succeeded after MaxPolls polls that read the reset bit set
C3_Witness ==
    /\ op = "begin"
    /\ result = "success"
    /\ Cardinality({i \in Idx : log[i].tx = "delay"}) = MaxPolls

\* ----------------------------------------------------------------- C4
\* C4: a successful begin has issued, in this order, the identity read, the
\* reset write, reset polls (with their delays), one write of 0x38 | 0x80 to
\* control register 1 and one write of 0x07 to the data-configuration
\* register; and a failed transaction is the last one of begin, which then has
\* returned the bus error.
C4_BeginSequence ==
    op = "begin" =>
        /\ result = "success" =>
             LET n == Len(log) IN
             /\ n >= 5
             /\ log[1] = Tx("begin", "write_then_read", "WHOAMI_R", <<196>>, TRUE)
             /\ log[2] = Tx("begin", "write", "CTRL_REG1", <<4>>, TRUE)
             /\ \A i \in 3 .. n - 2 : IsResetPoll(log[i]) \/ log[i].tx = "delay"
             /\ IsResetPoll(log[n - 2])
             /\ log[n - 1] = Tx("begin", "write", "CTRL_REG1", <<184>>, TRUE)
             /\ log[n] = Tx("begin", "write", "PT_DATA_CFG_R", <<7>>, TRUE)
        /\ \A i \in Idx :
             ~log[i].ok => /\ i = Len(log)
                           /\ pc = "idle"
                           /\ result = "BusError"

C4_Witness ==
    /\ op = "begin"
    /\ result = "success"
    /\ Len(log) > 5

\* ----------------------------------------------------------------- C5
\* C5: in a measurement read, every read of the output registers comes after
\* a successful write of the one-shot bit, with a successful status read that
\* returned the data-ready bit set in between; and a mode write of the call
\* comes before the one-shot write.
C5_OutputReadAfterReady ==
    op \in Reads =>
        /\ \A i \in Idx :
             IsOutRead(log[i])
                 => \E j \in Idx, k \in Idx :
                       /\ j < k
                       /\ k < i
                       /\ IsOneShotWrite(log[j])
                       /\ log[j].ok
                       /\ IsStatusRead(log[k])
                       /\ log[k].ok
                       /\ Bit(log[k].data[1], STATUS_PTDR)
        /\ \A i \in Idx, j \in Idx :
             (IsModeWrite(log[i]) /\ IsOneShotWrite(log[j])) => i < j

\* ----------------------------------------------------------------- C6
\* C6: p_read (a_read) issues the transactions of set_mode exactly when the
\* mode field on entry is not Barometer (Altimeter): then the read of control
\* register 1 by set_mode is its first transaction and, if that read succeeds,
\* the mode write is its second; otherwise the call has no set_mode transaction.
RequiredMode == IF op = "p_read" THEN BAROMETER_M ELSE ALTIMETER_M

C6_ModeWriteOnlyOnChange ==
    (op \in {"p_read", "a_read"} /\ log # <<>>) =>
        IF entry_mode = RequiredMode
        THEN \A i \in Idx : log[i].fn # "set_mode"
        ELSE /\ log[1].fn = "set_mode"
             /\ log[1].tx = "write_then_read"
             /\ (log[1].ok /\ Len(log) >= 2)
                    => /\ IsModeWrite(log[2])
                       /\ Bit(log[2].data[1], CTRL_REG1_ALT)
                              <=> (RequiredMode = ALTIMETER_M)
             /\ \A i \in Idx : i > 2 => log[i].fn # "set_mode"

\* p_read returned a pressure with the mode already Barometer on entry, after
\* an earlier operation had written the mode
C6_Witness ==
    /\ op = "p_read"
    /\ result = "success"
    /\ entry_mode = BAROMETER_M
    /\ \A i \in Idx : ~IsModeWrite(log[i])
    /\ last_ctrl1 # -1
    /\ ~Bit(last_ctrl1, CTRL_REG1_ALT)

\* ----------------------------------------------------------------- C7
\* C7: in p_read a failed status read (the first transaction of the call to
\* fail) is the last transaction: p_read has returned the bus error and reads
\* no output register after it.
C7_StatusFailureStopsPressureRead ==
    op = "p_read" =>
        \A i \in Idx :
            (IsStatusRead(log[i]) /\ ~log[i].ok /\ \A j \in 1 .. i - 1 : log[j].ok)
                => /\ i = Len(log)
                   /\ pc = "idle"
                   /\ result = "BusError"

\* ----------------------------------------------------------------- C8
\* C8: in a measurement read a failed transaction of set_mode or of
\* initiate_one_shot is the last transaction, and the read has returned the
\* bus error.
C8_SwitchOrTriggerFailureStopsRead ==
    op \in Reads =>
        \A i \in Idx :
            (log[i].fn \in {"set_mode", "initiate_one_shot"} /\ ~log[i].ok)
                => /\ i = Len(log)
                   /\ pc = "idle"
                   /\ result = "BusError"

\* ----------------------------------------------------------------- C9
\* C9: every operation that was called returns, whatever the sensor does.
C9_EveryOperationReturns == (pc # "idle") ~> (pc = "idle")

\* ----------------------------------------------------------------- C10
\* the value of the three bytes as a signed 32-bit integer MSB<<24 | CSB<<16 |
\* LSB<<8, divided by 2^8
SignedAlt(b) ==
    (IF b[1] >= 128 THEN b[1] - 256 ELSE b[1]) * (2 ^ 16) + b[2] * (2 ^ 8) + b[3]

\* C10: an a_read without a bus failure returns the signed value of the three
\* output bytes divided by 65536, that is SignedAlt / 256: negative when
\* MSB >= 0x80.
C10_AltitudeIsSigned ==
    (op = "a_read" /\ result = "success" /\ \A i \in Idx : log[i].ok)
        => /\ reading.den = 256
           /\ reading.num = SignedAlt(log[Len(log)].data)

\* ----------------------------------------------------------------- C11
\* the two bytes as a signed 16-bit integer MSB<<8 | LSB
SignedTemp(b) == (IF b[1] >= 128 THEN b[1] - 256 ELSE b[1]) * (2 ^ 8) + b[2]

\* C11: a t_read without a bus failure returns the signed 16-bit value of the
\* two bytes the temperature read returned, divided by 256.
C11_TemperatureFromReturnedBytes ==
    (op = "t_read" /\ result = "success" /\ \A i \in Idx : log[i].ok)
        => /\ reading.den = 256
           /\ reading.num = SignedTemp(log[Len(log)].data)

SeaPayload(p) == <<((p \div 2) % 65536) \div 256, ((p \div 2) % 65536) % 256>>

C14_OffsetTwosComplement ==
    (op = "set_altitude_offset" /\ pc = "idle")
        => /\ Len(log) = 1
           /\ log[1].tx = "write"
           /\ log[1].reg = "OFF_H_R"
           /\ log[1].data = <<IF arg < 0 THEN arg + 256 ELSE arg>>
           /\ result = IF log[1].ok THEN "success" ELSE "BusError"

\* set_altitude_offset(-5) wrote 0xFB
C14_Witness ==
    /\ op = "set_altitude_offset"
    /\ pc = "idle"
    /\ result = "success"
    /\ arg = -5
    /\ log[1].data = <<251>>

\* ----------------------------------------------------------------- C15
\* the mode set_mode is asked for in the current operation
Target == IF op = "set_mode" THEN arg ELSE RequiredMode

\* C15: the byte set_mode writes follows its successful read of control
\* register 1, has bit 7 equal to the target mode and the other seven bits as
\* read; and the mode field differs from its value on entry only once that
\* write has succeeded.
C15_ModeWritePreservesOtherBits ==
    op \in {"set_mode", "p_read", "a_read"} =>
        /\ \A i \in Idx :
             IsModeWrite(log[i])
                 => /\ i > 1
                    /\ log[i - 1].fn = "set_mode"
                    /\ log[i - 1].tx = "write_then_read"
                    /\ log[i - 1].ok
                    /\ log[i].data[1] \div 128 = Target
                    /\ log[i].data[1] % 128 = log[i - 1].data[1] % 128
        /\ sensor_mode # entry_mode
               => /\ sensor_mode = Target
                  /\ \E i \in Idx : IsModeWrite(log[i]) /\ log[i].ok
        /\ pc \in {"sm_read", "sm_write"} => sensor_mode = entry_mode

\* set_mode(Barometer) read 0xB8 and wrote 0x38
C15_Witness ==
    /\ op = "set_mode"
    /\ arg = BAROMETER_M
    /\ result = "success"
    /\ log[1].data = <<184>>
    /\ log[2].data = <<56>>
    /\ sensor_mode = BAROMETER_M

\* what initiate_one_shot recorded at position i of the log
IsOneShotPoll(e) == e.fn = "initiate_one_shot" /\ e.tx = "write_then_read"

\* C16: every write of initiate_one_shot directly follows a successful poll of
\* control register 1 that read the one-shot bit clear, and carries that byte
\* with the one-shot bit set and the other bits unchanged; a poll that read the
\* one-shot bit set, and a poll that failed, is never followed by a write.
C16_OneShotWriteAfterClearPoll ==
    /\ \A i \in Idx :
         IsOneShotWrite(log[i])
             => /\ i > 1
                /\ IsOneShotPoll(log[i - 1])
                /\ log[i - 1].ok
                /\ ~Bit(log[i - 1].data[1], CTRL_REG1_OST)
                /\ log[i].data[1] = log[i - 1].data[1] + CTRL_REG1_OST
    /\ \A i \in Idx :
         (IsOneShotPoll(log[i]) /\ i < Len(log)
            /\ (~log[i].ok \/ Bit(log[i].data[1], CTRL_REG1_OST)))
             => ~IsCtrlWrite(log[i + 1])
    /\ pc = "os_write" => ~Bit(ctrl_buffer, CTRL_REG1_OST)
    /\ pc = "os_delay" => Bit(ctrl_buffer, CTRL_REG1_OST)

\* a read polled 0xBA (one-shot pending), waited, polled 0xB8 and wrote 0xBA
C16_Witness ==
    /\ op \in Reads
    /\ Len(log) >= 4
    /\ IsOneShotPoll(log[Len(log) - 3]) /\ log[Len(log) - 3].data = <<186>>
    /\ log[Len(log) - 2].tx = "delay"
    /\ IsOneShotPoll(log[Len(log) - 1]) /\ log[Len(log) - 1].data = <<184>>
    /\ IsOneShotWrite(log[Len(log)]) /\ log[Len(log)].data = <<186>>

\* ------------------------------------------- a bus and a sensor that answer
\* every transaction of the current call has succeeded
AllOk == \A i \in Idx : log[i].ok

\* the sensor is not in the middle of a software reset when the driver starts
LiveInit == Init /\ BitAnd(dev_ctrl, CTRL_REG1_RST, 8) = 0

\* a status read that is not recorded (the loop has run more than MaxPolls
\* times) has succeeded as well: the loop goes on as the sensor's flag says
StatusAnswered ==
    (pc = "dr_check" /\ pc' # "dr_check")
        => ((pc' = "out_read") <=> data_ready(dev_status))

LiveNext == Next /\ AllOk' /\ StatusAnswered

\* no transaction fails, the driver never waits, and the sensor completes
\* every reset and every one-shot measurement it has started; wherever the
\* driver can take a step it can take one whose transaction succeeds, so the
\* fairness condition on Driver is one on its succeeding steps
LiveSpec ==
    /\ LiveInit
    /\ [][LiveNext]_vars
    /\ WF_vars(Driver)
    /\ WF_vars(DevResetDone)
    /\ WF_vars(DevMeasureDone)

Measuring == {"begin"} \cup Reads

\* C17 as stated: with no failing transaction and a sensor that completes its
\* resets and measurements, begin and the three reads return, and what they
\* return is success.
C17_ReturnsSuccessfully ==
    /\ []((op \in Measuring /\ pc = "idle") => result = "success")
    /\ (op \in Measuring /\ pc # "idle") ~> (pc = "idle")

\* begin read an identity byte other than the expected one
IdentityMismatch ==
    /\ op = "begin"
    /\ Len(log) = 1
    /\ log[1].reg = "WHOAMI_R"
    /\ log[1].data # <<WHOAMI_ID>>

\* C17 with the identity check: with no failing transaction and a sensor that
\* completes its resets and measurements, begin and the three reads return;
\* the reads return success, and begin returns success unless the identity
\* register did not read as the expected identity.
C17_ReturnsSuccessfullyOnMatch ==
    /\ []((op \in Measuring /\ pc = "idle")
              => (result = "success" \/ IdentityMismatch))
    /\ [](IdentityMismatch /\ pc = "idle" => result = "UnexpectedDevice")
    /\ (op \in Measuring /\ pc # "idle") ~> (pc = "idle")

\* a read returned success after waiting for the data-ready flag more often
\* than is recorded
C17_Witness ==
    /\ op \in Reads
    /\ pc = "idle"
    /\ result = "success"
    /\ AllOk
    /\ Cardinality({i \in Idx : log[i].fn = op /\ log[i].tx = "delay"}) = MaxPolls

\* C18: t_read never runs set_mode, leaves the mode field as it was on entry,
\* and writes control register 1 only through initiate_one_shot, with the
\* altimeter bit of the byte just read back.
C18_TemperatureReadKeepsMode ==
    op = "t_read" =>
        /\ pc \notin {"sm_read", "sm_write"}
        /\ sensor_mode = entry_mode
        /\ \A i \in Idx :
             /\ log[i].fn # "set_mode"
             /\ IsCtrlWrite(log[i])
                    => /\ IsOneShotWrite(log[i])
                       /\ i > 1
                       /\ IsOneShotPoll(log[i - 1])
                       /\ log[i - 1].ok
                       /\ Bit(log[i].data[1], CTRL_REG1_ALT)
                              <=> Bit(log[i - 1].data[1], CTRL_REG1_ALT)
        /\ Cardinality({i \in Idx : IsCtrlWrite(log[i])}) <= 1

\* t_read returned a temperature with the mode field Barometer, after reading
\* 0x38 from control register 1 and writing 0x3A
C18_Witness ==
    /\ op = "t_read"
    /\ result = "success"
    /\ sensor_mode = BAROMETER_M
    /\ \E i \in Idx : /\ IsOneShotWrite(log[i]) /\ log[i].ok
                       /\ log[i].data = <<58>>
                       /\ log[i - 1].data = <<56>>

\* C19: once a call of begin has returned true, every one-shot trigger byte
\* written inside p_read has the altimeter bit clear and every one written
\* inside a_read has it set.
C19_TriggerInRequiredMode ==
    (created /\ op \in {"p_read", "a_read"}) =>
        \A i \in Idx :
            IsOneShotWrite(log[i])
                => (Bit(log[i].data[1], CTRL_REG1_ALT) <=> (RequiredMode = ALTIMETER_M))

IsModeRead(e) == e.fn = "set_mode" /\ e.tx = "write_then_read"

\* C20: when the read or the write of set_mode has failed, the mode field is
\* what it was when the operation was called; and a failed read of set_mode
\* is followed by no write of set_mode.
C20_FailedModeSwitchKeepsField ==
    /\ (\E i \in Idx : log[i].fn = "set_mode" /\ ~log[i].ok)
           => sensor_mode = entry_mode
    /\ (\E i \in Idx : IsModeRead(log[i]) /\ ~log[i].ok)
           => \A j \in Idx : ~IsModeWrite(log[j])

\* set_mode was called for the other mode, read control register 1, and its
\* write failed
C20_Witness ==
    /\ op = "set_mode"
    /\ arg # entry_mode
    /\ result = "BusError"
    /\ Len(log) = 2
    /\ log[1].ok
    /\ IsModeWrite(log[2]) /\ ~log[2].ok
    /\ log[2].data[1] # log[1].data[1]

====
